---------------------------- MODULE Spec2Model ----------------------------
(* Model of src/app.py (Online Presence Monitor): the presence scorer,      *)
(* the tips engine, the paginated search adapter, the memoizing cache and  *)
(* the main analysis pipeline.                                             *)
(*                                                                         *)
(* Numbers.  The program computes with Python floats.  The model computes  *)
(* with exact decimal fixed point:                                         *)
(*   avg_rating          in hundredths      (4.5   is 450)                 *)
(*   avg_sentiment       in thousandths     (0.2   is 200)                 *)
(*   company_prevalence  in thousandths     (0.1   is 100)                 *)
(*   sub-scores          in hundredths      (66.6  is 6660)                *)
(*   total               in ten-thousandths (89.9975 is 899975)            *)
(*   returned score      in hundredths      (round(total, 2))              *)
(*   breakdown entries   in tenths          (round(x, 1)), Recency whole   *)
(* A decimal tie of round() is decided in Python by the binary value of    *)
(* the float, so the model lets round() return either neighbour on a tie.  *)
EXTENDS Integers, Sequences, FiniteSets, TLC

VARIABLES
    stats,      \* the stats record handed to calculate_presence_score / generate_tips
    total,      \* calculate_presence_score: local `total` (0 when the except branch ran)
    raised,     \* calculate_presence_score: TRUE when its except branch produced the result
    grade,      \* the value calculate_presence_score returned (app.py names it `grade`)
    review_count,       \* generate_tips: argument review_count
    sentiment_scores,   \* generate_tips: argument sentiment_scores (thousandths)
    inputs,             \* generate_tips: argument inputs (name, company, city, profession)
    tips,               \* generate_tips: local `tips` before the dedupe loop
    filtered,           \* generate_tips: the list it returned
    API_KEY,            \* TRUE when st.secrets holds a non-empty GOOGLE_API_KEY
    CSE_ID,             \* TRUE when st.secrets holds a non-empty GOOGLE_CSE_ID
    max_results,        \* get_top_results: argument max_results
    start,              \* get_top_results: loop variable `start`
    results,            \* get_top_results: local list `results`
    requests,           \* get_top_results: the `start` of every backend request issued, in order
    responses,          \* get_top_results: what the backend did on each of those requests
    exc,                \* get_top_results: "none", "caught" (by its except) or "escaped"
    returned,           \* get_top_results: the list it returned
    query_raw,          \* the submitted query: its whitespace-separated tokens, "," a token
    name,               \* parse_query's name, as its whitespace-separated tokens
    profession,         \* parse_query's profession, as tokens
    city,               \* parse_query's city, as tokens
    cse_results,        \* main pipeline: the search results
    parsed,             \* main pipeline: one record per search result processed
    places,             \* main pipeline: get_google_places_details' result
    fallback_reviews,   \* main pipeline: gather_fallback_reviews' result
    cache,              \* st.cache_data: per cached function, its <<arguments, value>> entries
    world,              \* what the backends would answer during the current request
    served,             \* what the adapters returned to the current request, through the cache
    direct,             \* what the same calls return when they run uncached
    request_no,         \* the number of analysis requests served so far
    pc          \* position of the modelled run

scoreVars == <<total, raised, grade>>
tipVars == <<review_count, sentiment_scores, inputs, tips, filtered>>
credVars == <<API_KEY, CSE_ID>>
gtrVars == <<max_results, start, results, requests, responses, exc, returned>>
queryVars == <<query_raw, name, profession, city>>
pipeVars == <<cse_results, parsed, places, fallback_reviews>>
cacheVars == <<cache, world, served, direct, request_no>>
nonGtrVars == <<stats, scoreVars, tipVars, credVars, queryVars, pipeVars, cacheVars>>
vars == <<stats, scoreVars, tipVars, credVars, gtrVars, queryVars, pipeVars, cacheVars, pc>>

-----------------------------------------------------------------------------
(* Optional values (Python None or a number).                              *)
None == [some |-> FALSE, v |-> 0]
Some(x) == [some |-> TRUE, v |-> x]

(* most_recent_date, by what the code can do with it: absent (None or ""), *)
(* present but dateparser.parse / the subtraction raises, or present with  *)
(* an age in whole days (timedelta.days, negative for a future date).      *)
DateAbsent == [kind |-> "absent", days |-> 0]
DateUnparseable == [kind |-> "unparseable", days |-> 0]
DateAged(d) == [kind |-> "date", days |-> d]

-----------------------------------------------------------------------------
(* round(x, n) on a non-negative fixed-point value x whose last `unit`     *)
(* positions are dropped: the nearest value, either neighbour on a tie.    *)
RoundSet(x, unit) ==
    LET q == x \div unit
        r == x % unit
    IN  IF 2 * r < unit THEN {q}
        ELSE IF 2 * r > unit THEN {q + 1}
        ELSE {q, q + 1}

Min(a, b) == IF a <= b THEN a ELSE b
Max(a, b) == IF a >= b THEN a ELSE b

(* RecencyStep with the first boundary open: an age of exactly 7 days falls to 80 *)
RecencyStepOpen7(days) ==
    IF days < 7 THEN 100
    ELSE IF days <= 30 THEN 80
    ELSE IF days <= 90 THEN 50
    ELSE IF days <= 365 THEN 30
    ELSE 10

(* app.py:420  rec_score as a step function of the age in days *)
RecencyStep(days) ==
    IF days <= 7 THEN 100
    ELSE IF days <= 30 THEN 80
    ELSE IF days <= 90 THEN 50
    ELSE IF days <= 365 THEN 30
    ELSE 10

(* GradeOf with open thresholds: exactly 90 falls to B, exactly 80 to C, ... *)
GradeOfOpen(t) ==
    IF t > 900000 THEN "A"
    ELSE IF t > 800000 THEN "B"
    ELSE IF t > 700000 THEN "C"
    ELSE IF t > 600000 THEN "D"
    ELSE "F"

(* app.py:427-431  grade from total (ten-thousandths) *)
GradeOf(t) ==
    IF t >= 900000 THEN "A"
    ELSE IF t >= 800000 THEN "B"
    ELSE IF t >= 700000 THEN "C"
    ELSE IF t >= 600000 THEN "D"
    ELSE "F"

(* app.py:413-415, 421  sub-scores in hundredths *)
SitesScore(s) == (Min(s.num_websites, 50) * 10000) \div 50
RatingScore(s) == (IF s.avg_rating.some THEN s.avg_rating.v ELSE 0) * 20
SentScore(s) == ((s.avg_sentiment + 1000) * 10) \div 2
CompScore(s) == s.company_prevalence * 10

(* app.py:418  `if stats.get("most_recent_date")` then line 419 parses it:  *)
(* the parse (or the naive/aware subtraction) raises for an unparseable    *)
(* value, and the raise leaves the try block.                              *)
DateRaises(s) == s.most_recent_date.kind = "unparseable"

RecScore(s) ==
    IF s.most_recent_date.kind = "date"
    THEN RecencyStep(s.most_recent_date.days)
    ELSE 0

(* app.py:422-425  weighted sum (weights in hundredths), then the clamp *)
WeightedTotal(s) ==
    35 * SitesScore(s) + 30 * RatingScore(s) + 15 * SentScore(s)
        + 10 * (RecScore(s) * 100) + 10 * CompScore(s)

Clamp(t) == Max(0, Min(1000000, t))

(* app.py:438  the except branch's result *)
FallbackResult ==
    [score |-> 0, grade |-> "F",
     breakdown |-> [Sites |-> 0, Rating |-> 0, Sentiment |-> 0, Recency |-> 0, Company |-> 0]]

(* app.py:410-438  every value calculate_presence_score can return for s,  *)
(* with the local total and whether the except branch ran.                 *)
calculate_presence_score(s) ==
    IF DateRaises(s)
    THEN {[result |-> FallbackResult, total |-> 0, raised |-> TRUE]}
    ELSE LET t == Clamp(WeightedTotal(s))
         IN  {[result |->
                  [score |-> sc, grade |-> GradeOf(t),
                   breakdown |-> [Sites |-> bs, Rating |-> br, Sentiment |-> bn,
                                  Recency |-> RecScore(s), Company |-> bc]],
               total |-> t, raised |-> FALSE] :
                  sc \in RoundSet(t, 100),
                  bs \in RoundSet(SitesScore(s), 10),
                  br \in RoundSet(RatingScore(s), 10),
                  bn \in RoundSet(SentScore(s), 10),
                  bc \in RoundSet(CompScore(s), 10)}

-----------------------------------------------------------------------------
(* Inputs of the scorer: stats records within the ranges of the data model *)
MaxWebsites == 51
WebsiteCounts == {0, 7, 8, 25, 50, MaxWebsites}
Ratings == {None} \cup {Some(k) : k \in {0, 1, 250, 299, 300, 449, 450, 500}}
Sentiments == {-1000, -1, 0, 1, 2, 333, 1000}
Ages == {-1, 0, 7, 8, 10, 30, 31, 90, 91, 365, 366}
Dates == {DateAbsent, DateUnparseable} \cup {DateAged(d) : d \in Ages}
Prevalences == {0, 99, 100, 1000}

StatsInputs ==
    [num_websites : WebsiteCounts, unique_domains : {0}, avg_rating : Ratings,
     avg_sentiment : Sentiments, most_recent_date : Dates,
     company_prevalence : Prevalences]

(* Before calculate_presence_score / generate_tips have run *)
ScoreIdle ==
    /\ total = 0
    /\ raised = FALSE
    /\ grade = FallbackResult

TipsIdle ==
    /\ review_count = 0
    /\ sentiment_scores = << >>
    /\ inputs = [name |-> "", company |-> "", city |-> "", profession |-> ""]
    /\ tips = << >>
    /\ filtered = << >>

NoStats ==
    [num_websites |-> 0, unique_domains |-> 0, avg_rating |-> None,
     avg_sentiment |-> 0, most_recent_date |-> DateAbsent, company_prevalence |-> 0]

SearchIdle ==
    /\ max_results = 0
    /\ start = 0
    /\ results = << >>
    /\ requests = << >>
    /\ responses = << >>
    /\ exc = "none"
    /\ returned = << >>

NoCredentials ==
    /\ API_KEY = FALSE
    /\ CSE_ID = FALSE

NoPlaces == [found |-> FALSE, reviews |-> << >>]

QueryIdle ==
    /\ query_raw = << >>
    /\ name = << >>
    /\ profession = << >>
    /\ city = << >>

PipelineIdle ==
    /\ cse_results = << >>
    /\ parsed = << >>
    /\ places = NoPlaces
    /\ fallback_reviews = << >>

EmptyCache == [get_top_results |-> {}, get_google_places_details |-> {}, parse_yelp |-> {}]
NoAnswers == [get_top_results |-> << >>, get_google_places_details |-> NoPlaces,
              parse_yelp |-> << >>]
QuietWorld == [search |-> << >>, places |-> "down"]

CacheIdle ==
    /\ cache = EmptyCache
    /\ world = QuietWorld
    /\ served = NoAnswers
    /\ direct = NoAnswers
    /\ request_no = 0

InitScore ==
    /\ stats \in StatsInputs
    /\ ScoreIdle
    /\ TipsIdle
    /\ SearchIdle
    /\ NoCredentials
    /\ QueryIdle
    /\ PipelineIdle
    /\ CacheIdle
    /\ pc = "score"

(* app.py:524  one call calculate_presence_score(stats) *)
Score ==
    /\ pc = "score"
    /\ \E out \in calculate_presence_score(stats) :
        /\ total' = out.total
        /\ raised' = out.raised
        /\ grade' = out.result
    /\ pc' = "scored"
    /\ UNCHANGED <<stats, tipVars, credVars, gtrVars, queryVars, pipeVars, cacheVars>>

NextScore == Score

SpecScore == InitScore /\ [][NextScore]_vars

-----------------------------------------------------------------------------
(* generate_tips (app.py:338-405).  A tip is <<category, message>>; the    *)
(* long dash of the message texts is written "-".                          *)

Tip(cat, msg) == <<cat, msg>>

TipCity == Tip("Search Context", "Add a city (or include it in your search query) to narrow results locally.")
TipDisambiguate == Tip("Search Context", "Include a profession or company to better disambiguate common names.")
TipStrong == Tip("Reputation", "Strong average rating - encourage recent reviewers to stay current.")
TipMixed == Tip("Reputation", "Average rating is mixed - respond to critical feedback and highlight positive testimonials.")
TipLow == Tip("Reputation", "Low average rating - investigate recurring complaints and respond publicly where appropriate.")
TipNoRating == Tip("Reputation", "No average rating detected - encourage satisfied clients to leave reviews on key platforms.")
TipFewReviews == Tip("Volume", "Few reviews found - implement a process to request reviews from happy customers.")
TipHealthyVolume == Tip("Volume", "Healthy review volume - maintain monitoring and respond to negative feedback promptly.")
TipPositive == Tip("Sentiment", "Predominantly positive sentiment - promote great quotes in marketing materials.")
TipNegative == Tip("Sentiment", "Negative sentiment present - prioritize resolving critical issues and public responses.")
TipFootprint == Tip("Presence", "Limited online footprint - consider directory listings, local citations, and social posts.")
TipStale == Tip("Recency", "Most mentions are over a year old - fresh content and recent reviews help SEO.")
TipModerate == Tip("Recency", "Consider generating new mentions (press, blog, social).")
TipCompany(company) ==
    Tip("Company", "The company '" \o company
                   \o "' isn't common in found results - add your official website and directory listings.")

(* Python truthiness of an optional number: None and 0.0 are both falsy *)
Truthy(x) == x.some /\ x.v # 0

(* app.py:346-349 *)
ContextTips(inp) ==
    (IF inp.city = "" THEN <<TipCity>> ELSE << >>)
    \o (IF inp.profession = "" /\ inp.company = "" THEN <<TipDisambiguate>> ELSE << >>)

(* app.py:352-360 *)
RatingTips(avg_rating) ==
    IF Truthy(avg_rating)
    THEN IF avg_rating.v >= 450 THEN <<TipStrong>>
         ELSE IF avg_rating.v >= 300 THEN <<TipMixed>>
         ELSE <<TipLow>>
    ELSE <<TipNoRating>>

(* app.py:363-366 *)
VolumeTips(rc) ==
    IF rc < 5 THEN <<TipFewReviews>>
    ELSE IF rc > 50 THEN <<TipHealthyVolume>>
    ELSE << >>

(* app.py:369-376  pos/total > 0.75 and pos/total < 0.4, cross-multiplied *)
SentimentTips(scores) ==
    LET pos == Cardinality({i \in 1..Len(scores) : scores[i] > 200})
        n == Max(1, Len(scores))
    IN  IF 100 * pos > 75 * n THEN <<TipPositive>>
        ELSE IF 100 * pos < 40 * n THEN <<TipNegative>>
        ELSE << >>

(* app.py:379-380 *)
PresenceTips(s) ==
    IF s.num_websites < 8 THEN <<TipFootprint>> ELSE << >>

(* The Recency rule without its try: a raise of line 386 leaves generate_tips *)
RecencyOutcomeUnguarded(s) ==
    IF s.most_recent_date.kind = "absent" THEN [tips |-> << >>, exc |-> "none"]
    ELSE IF s.most_recent_date.kind = "unparseable" THEN [tips |-> << >>, exc |-> "escaped"]
    ELSE [tips |-> IF s.most_recent_date.days > 365 THEN <<TipStale>>
                   ELSE IF s.most_recent_date.days > 90 THEN <<TipModerate>>
                   ELSE << >>,
          exc |-> "none"]

(* app.py:383-392  the Recency rule: the tips it appends and what becomes   *)
(* of an exception.  A falsy most_recent_date skips the rule (line 384);   *)
(* a date that does not parse, or whose subtraction raises, raises at line *)
(* 386 inside the try, and the bare `except: pass` of lines 391-392        *)
(* catches it before anything was appended.                                *)
RecencyOutcome(s) ==
    IF s.most_recent_date.kind = "absent" THEN [tips |-> << >>, exc |-> "none"]
    ELSE IF s.most_recent_date.kind = "unparseable" THEN [tips |-> << >>, exc |-> "caught"]
    ELSE [tips |-> IF s.most_recent_date.days > 365 THEN <<TipStale>>
                   ELSE IF s.most_recent_date.days > 90 THEN <<TipModerate>>
                   ELSE << >>,
          exc |-> "none"]

(* app.py:383-392  what the Recency rule appends *)
RecencyTips(s) == RecencyOutcome(s).tips

(* app.py:395-396 *)
CompanyTips(s, inp) ==
    IF inp.company # "" /\ s.company_prevalence < 100
    THEN <<TipCompany(inp.company)>>
    ELSE << >>

(* app.py:339-396  the list `tips` as the rules append to it *)
RawTips(s, avg_rating, rc, scores, inp) ==
    ContextTips(inp) \o RatingTips(avg_rating) \o VolumeTips(rc) \o SentimentTips(scores)
        \o PresenceTips(s) \o RecencyTips(s) \o CompanyTips(s, inp)

(* The dedupe loop building its list at the front: the order comes out reversed *)
RECURSIVE DedupePrepend(_, _, _)
DedupePrepend(ts, seen, acc) ==
    IF ts = << >> THEN acc
    ELSE IF Head(ts)[2] \in seen
         THEN DedupePrepend(Tail(ts), seen, acc)
         ELSE DedupePrepend(Tail(ts), seen \cup {Head(ts)[2]}, <<Head(ts)>> \o acc)

(* app.py:399-405  the dedupe loop: `seen` holds messages, `acc` is `filtered` *)
RECURSIVE Dedupe(_, _, _)
Dedupe(ts, seen, acc) ==
    IF ts = << >> THEN acc
    ELSE IF Head(ts)[2] \in seen
         THEN Dedupe(Tail(ts), seen, acc)
         ELSE Dedupe(Tail(ts), seen \cup {Head(ts)[2]}, Append(acc, Head(ts)))

(* app.py:338-405 *)
generate_tips(s, avg_rating, rc, scores, inp) ==
    Dedupe(RawTips(s, avg_rating, rc, scores, inp), {}, << >>)

(* Inputs of generate_tips *)
MaxSentiments == 4
SentimentValues == {200, 201}
SentimentLists == UNION {[1..n -> SentimentValues] : n \in 0..MaxSentiments}
ReviewCounts == {4, 5, 50, 51}
TipStats ==
    [num_websites : {7, 8}, unique_domains : {0},
     avg_rating : {None, Some(0), Some(299), Some(300), Some(449), Some(450)},
     avg_sentiment : {0},
     most_recent_date : {DateAbsent, DateUnparseable, DateAged(90), DateAged(91),
                         DateAged(365), DateAged(366)},
     company_prevalence : {99, 100}]
TipInputs ==
    [name : {"Jane"}, company : {"", "Acme"}, city : {"", "Chicago"},
     profession : {"", "dentist"}]

InitTips ==
    /\ stats \in TipStats
    /\ ScoreIdle
    /\ review_count \in ReviewCounts
    /\ sentiment_scores \in SentimentLists
    /\ inputs \in TipInputs
    /\ tips = << >>
    /\ filtered = << >>
    /\ SearchIdle
    /\ NoCredentials
    /\ QueryIdle
    /\ PipelineIdle
    /\ CacheIdle
    /\ pc = "tips"

(* app.py:563  tips = generate_tips(stats, stats.get("avg_rating"), ...) *)
Tips ==
    /\ pc = "tips"
    /\ IF RecencyOutcome(stats).exc = "escaped"
       THEN /\ tips' = ContextTips(inputs) \o RatingTips(stats.avg_rating)
                           \o VolumeTips(review_count) \o SentimentTips(sentiment_scores)
                           \o PresenceTips(stats)
            /\ filtered' = << >>
            /\ pc' = "tips_raised"
       ELSE /\ tips' = RawTips(stats, stats.avg_rating, review_count, sentiment_scores, inputs)
            /\ filtered' = generate_tips(stats, stats.avg_rating, review_count,
                                         sentiment_scores, inputs)
            /\ pc' = "tipped"
    /\ UNCHANGED <<stats, scoreVars, review_count, sentiment_scores, inputs>>
    /\ UNCHANGED <<credVars, gtrVars, queryVars, pipeVars, cacheVars>>

NextTips == Tips

SpecTips == InitTips /\ [][NextTips]_vars

-----------------------------------------------------------------------------
(* get_top_results (app.py:139-164), one backend request per step.         *)
(* An item of a result page is <<start, i>>: the i-th item of the page     *)
(* requested with that start.  The backend answers a request with          *)
(*   "items"   : a JSON body whose "items" holds n well-formed items,      *)
(*   "error"   : requests.get or r.json() raises, or the body is not an    *)
(*               object with a list of items (data.get / the for raise),   *)
(*   "partial" : n well-formed items followed by one that is not an        *)
(*               object, on which item.get raises.                         *)

PageStep == 10

PageItems(st, n) == [i \in 1..n |-> <<st, i>>]

(* the return statement without its slice *)
TruncateNot(rs, m) == rs

(* results[:max_results] for max_results >= 0 *)
Truncate(rs, m) == SubSeq(rs, 1, Min(Len(rs), m))

MaxResults == 25
MaxPageItems == 12
MaxResultsValues == {0, 1, 5, 8, PageStep, PageStep + 1, MaxResults}
PageSizes == {0, 1, PageStep - 1, PageStep, MaxPageItems}
Responses ==
    {[kind |-> "items", n |-> n] : n \in PageSizes}
    \cup {[kind |-> "error", n |-> 0]}
    \cup {[kind |-> "partial", n |-> 1]}

(* app.py:142-146  missing credentials: return the empty list at once *)
GTR_MissingCredentials ==
    /\ pc = "gtr_call"
    /\ ~(API_KEY /\ CSE_ID)
    /\ results' = << >>
    /\ returned' = << >>
    /\ pc' = "gtr_done"
    /\ UNCHANGED <<max_results, start, requests, responses, exc>>
    /\ UNCHANGED nonGtrVars

(* app.py:142-148  enter the try block and the for loop *)
GTR_Enter ==
    /\ pc = "gtr_call"
    /\ API_KEY /\ CSE_ID
    /\ results' = << >>
    /\ start' = 1
    /\ pc' = "gtr_loop"
    /\ UNCHANGED <<max_results, requests, responses, exc, returned>>
    /\ UNCHANGED nonGtrVars

(* GTR_Page without the break of lines 159-160: the loop goes on to the     *)
(* next start although max_results items are in                            *)
GTR_PageNoBreak ==
    /\ pc = "gtr_loop"
    /\ start <= max_results
    /\ \E resp \in {r \in Responses : r.kind = "items"} :
        /\ requests' = Append(requests, start)
        /\ responses' = Append(responses, resp)
        /\ results' = results \o PageItems(start, resp.n)
    /\ pc' = "gtr_loop"
    /\ start' = start + PageStep
    /\ UNCHANGED <<max_results, exc, returned>>
    /\ UNCHANGED nonGtrVars

(* app.py:148-160  one iteration whose page arrives well formed *)
GTR_Page ==
    /\ pc = "gtr_loop"
    /\ start <= max_results
    /\ \E resp \in {r \in Responses : r.kind = "items"} :
        /\ requests' = Append(requests, start)
        /\ responses' = Append(responses, resp)
        /\ results' = results \o PageItems(start, resp.n)
        /\ IF Len(results') >= max_results
           THEN /\ pc' = "gtr_return"
                /\ start' = start
           ELSE /\ pc' = "gtr_loop"
                /\ start' = start + PageStep
    /\ UNCHANGED <<max_results, exc, returned>>
    /\ UNCHANGED nonGtrVars

(* app.py:148-163  one iteration in which something raises: the except     *)
(* around the loop catches it and the loop is over                         *)
GTR_PageFails ==
    /\ pc = "gtr_loop"
    /\ start <= max_results
    /\ \E resp \in {r \in Responses : r.kind # "items"} :
        /\ requests' = Append(requests, start)
        /\ responses' = Append(responses, resp)
        /\ results' = results \o PageItems(start, resp.n)
    /\ exc' = "caught"
    /\ pc' = "gtr_return"
    /\ UNCHANGED <<max_results, start, returned>>
    /\ UNCHANGED nonGtrVars

(* app.py:148  range(1, max_results+1, 10) is exhausted *)
GTR_Exhausted ==
    /\ pc = "gtr_loop"
    /\ start > max_results
    /\ pc' = "gtr_return"
    /\ UNCHANGED gtrVars
    /\ UNCHANGED nonGtrVars

(* app.py:164  return results[:max_results] *)
GTR_Return ==
    /\ pc = "gtr_return"
    /\ returned' = Truncate(results, max_results)
    /\ pc' = "gtr_done"
    /\ UNCHANGED <<max_results, start, results, requests, responses, exc>>
    /\ UNCHANGED nonGtrVars

GTR_Step ==
    \/ GTR_MissingCredentials
    \/ GTR_Enter
    \/ GTR_Page
    \/ GTR_PageFails
    \/ GTR_Exhausted
    \/ GTR_Return

InitSearch ==
    /\ stats = NoStats
    /\ ScoreIdle
    /\ TipsIdle
    /\ API_KEY \in BOOLEAN
    /\ CSE_ID \in BOOLEAN
    /\ max_results \in MaxResultsValues
    /\ start = 0
    /\ results = << >>
    /\ requests = << >>
    /\ responses = << >>
    /\ exc = "none"
    /\ returned = << >>
    /\ QueryIdle
    /\ PipelineIdle
    /\ CacheIdle
    /\ pc = "gtr_call"

NextSearch == GTR_Step

SpecSearch == InitSearch /\ [][NextSearch]_vars

(* The interpreter runs the call to its end: a step that can be taken is   *)
(* taken, every request returning or raising within its timeout            *)
(* (app.py:150, timeout=10).                                               *)
SpecSearchLive == SpecSearch /\ WF_vars(NextSearch)

-----------------------------------------------------------------------------
(* parse_query (app.py:81-134).  A string is modelled by its whitespace-   *)
(* separated tokens; a comma of the query stands as a token of its own     *)
(* ("Jane Smith , Chicago").  Joining with " ", split() and strip() are    *)
(* then concatenation and identity on token sequences.                     *)

Words == {"Dr.", "Dr.Jane", "Jane", "dentist", "Chicago"}
Vocabulary == Words \cup {","}

(* app.py:111  re.sub(r'[^\w]', '', t.lower()) on the vocabulary *)
KeyOf(t) ==
    CASE t = "Dr." -> "dr"
      [] t = "Dr.Jane" -> "drjane"
      [] t = "Jane" -> "jane"
      [] t = "dentist" -> "dentist"
      [] t = "Chicago" -> "chicago"
      [] t = "," -> ""

(* app.py:107-109 *)
prof_keywords ==
    {"doctor", "dr", "physician", "lawyer", "attorney", "clinic", "dentist",
     "therapist", "nurse", "restaurant", "bookstore", "hotel", "realtor",
     "cardiologist", "pediatrician", "surgeon", "barber", "salon", "store", "shop"}

(* app.py:120  re.match(r'^(Dr\.?|Doctor)\b', remainder, re.I): decided by *)
(* the first token                                                         *)
MatchesDoctorPrefix(ts) == ts # << >> /\ Head(ts) \in {"Dr.", "Dr.Jane"}

(* app.py:98  q.split(","), each part stripped, empty parts dropped *)
RECURSIVE SplitByComma(_, _, _)
SplitByComma(ts, cur, acc) ==
    LET flush == IF cur = << >> THEN acc ELSE Append(acc, cur)
    IN  IF ts = << >> THEN flush
        ELSE IF Head(ts) = "," THEN SplitByComma(Tail(ts), << >>, flush)
        ELSE SplitByComma(Tail(ts), Append(cur, Head(ts)), acc)

RECURSIVE Flatten(_)
Flatten(ps) == IF ps = << >> THEN << >> ELSE Head(ps) \o Flatten(Tail(ps))

(* app.py:111  prof_tokens = [t for t in tokens if <key of t> in prof_keywords] *)
ProfTokens(ts) ==
    LET F[i \in 0..Len(ts)] ==
            IF i = 0 THEN << >>
            ELSE IF KeyOf(ts[i]) \in prof_keywords THEN Append(F[i - 1], ts[i]) ELSE F[i - 1]
    IN  F[Len(ts)]

(* app.py:116  name_tokens = [t for t in tokens if t not in prof_tokens] *)
NameTokens(ts, prof_tokens) ==
    LET F[i \in 0..Len(ts)] ==
            IF i = 0 THEN << >>
            ELSE IF \E j \in 1..Len(prof_tokens) : prof_tokens[j] = ts[i]
                 THEN F[i - 1]
                 ELSE Append(F[i - 1], ts[i])
    IN  F[Len(ts)]

(* app.py:81-134 *)
parse_query(q) ==
    IF q = << >>
    THEN [name |-> << >>, profession |-> << >>, city |-> << >>]
    ELSE LET parts == SplitByComma(q, << >>, << >>)
             cty == IF Len(parts) >= 2 THEN parts[Len(parts)] ELSE << >>
             remainder == IF Len(parts) >= 2
                          THEN Flatten(SubSeq(parts, 1, Len(parts) - 1))
                          ELSE q
             prof_tokens == ProfTokens(remainder)
         IN  IF prof_tokens # << >>
             THEN [name |-> NameTokens(remainder, prof_tokens),
                   profession |-> prof_tokens, city |-> cty]
             ELSE IF MatchesDoctorPrefix(remainder)
             THEN [name |-> remainder, profession |-> <<"doctor">>, city |-> cty]
             ELSE [name |-> remainder, profession |-> << >>, city |-> cty]

(* a company given with the query: the value line 456 never takes *)
companyGiven == <<"Acme">>

(* app.py:456 *)
company == << >>

(* Inputs of parse_query: the queries of at most MaxQueryTokens tokens *)
MaxQueryTokens == 4
Queries == UNION {[1..n -> Vocabulary] : n \in 0..MaxQueryTokens}

InitParse ==
    /\ stats = NoStats
    /\ ScoreIdle
    /\ TipsIdle
    /\ SearchIdle
    /\ NoCredentials
    /\ query_raw \in Queries
    /\ name = << >>
    /\ profession = << >>
    /\ city = << >>
    /\ PipelineIdle
    /\ CacheIdle
    /\ pc = "parse"

(* app.py:455  parts = parse_query(raw_query) *)
Parse ==
    /\ pc = "parse"
    /\ LET parts == parse_query(query_raw)
       IN  /\ name' = parts.name
           /\ profession' = parts.profession
           /\ city' = parts.city
    /\ pc' = "parse_done"
    /\ UNCHANGED <<stats, scoreVars, tipVars, credVars, gtrVars, query_raw, pipeVars, cacheVars>>

NextParse == Parse

SpecParse == InitParse /\ [][NextParse]_vars

-----------------------------------------------------------------------------
(* The main analysis pipeline (app.py:452-530).                            *)
(* What the web does for one search result:                                *)
(*   fetch "down"    safe_request returns None or a falsy response         *)
(*   fetch "ok"      the page is fetched and parsed                        *)
(*   fetch "raises"  the page is fetched and its parsing raises (caught    *)
(*                   at app.py:492)                                        *)
(* The links of the search results are taken to be URLs urlparse accepts.  *)
(* Each outcome comes with the rating extract_rating_from_text finds (hundredths) and the     *)
(* sentiment of the quote taken from the snippet (thousandths).            *)

MaxVaried == 2

(* "Jane", "dentist", "Dr.Jane", "Jane , Chicago", "dentist , Chicago",      *)
(* "Dr. Jane dentist , Chicago".  The empty query is left out: the search  *)
(* backend has no results for it.                                          *)
PipelineQueries ==
    {<<"Jane">>, <<"dentist">>, <<"Dr.Jane">>, <<"Jane", ",", "Chicago">>,
     <<"dentist", ",", "Chicago">>, <<"Dr.", "Jane", "dentist", ",", "Chicago">>}

ItemOutcomes ==
    {[fetch |-> "down", rating |-> None, sentiment |-> 0],
     [fetch |-> "ok", rating |-> Some(500), sentiment |-> 1000],
     [fetch |-> "ok", rating |-> Some(450), sentiment |-> -500],
     [fetch |-> "raises", rating |-> None, sentiment |-> 201]}

(* The results after the first MaxVaried behave like the one before them *)
OutcomesFor(i) ==
    IF i <= MaxVaried \/ parsed = << >> THEN ItemOutcomes ELSE {parsed[Len(parsed)]}

PlacesResults ==
    {NoPlaces,
     [found |-> TRUE, reviews |-> <<[site |-> "Google", rating |-> Some(100)]>>]}

FallbackResults ==
    {<< >>,
     <<[site |-> "Yelp", rating |-> None], [site |-> "Glassdoor", rating |-> Some(300)]>>}

RECURSIVE Sum(_)
Sum(xs) == IF xs = << >> THEN 0 ELSE Head(xs) + Sum(Tail(xs))

(* app.py:499 with every record counted, rated or not *)
SourceRatingsAll(ps) == [i \in 1..Len(ps) |-> ps[i].rating.v]

(* app.py:499  ratings = [p["rating"] for p in parsed if p.get("rating") is not None] *)
SourceRatings(ps) ==
    LET F[i \in 0..Len(ps)] ==
            IF i = 0 THEN << >>
            ELSE IF ps[i].rating.some THEN Append(F[i - 1], ps[i].rating.v) ELSE F[i - 1]
    IN  F[Len(ps)]

(* app.py:500  round(sum(ratings)/len(ratings), 2) if ratings else None *)
AvgRatings(ps) ==
    LET ratings == SourceRatings(ps)
    IN  IF ratings = << >> THEN {None}
        ELSE {Some(a) : a \in RoundSet(Sum(ratings), Len(ratings))}

(* app.py:511  round(sum(sentiments)/len(quotes), 3) if quotes else 0.0 *)
AvgSentiments(ps) ==
    IF ps = << >> THEN {0}
    ELSE RoundSet(Sum([i \in 1..Len(ps) |-> ps[i].sentiment]), Len(ps))

(* app.py:491, 496, 521  len(domains): between one domain for all results  *)
(* and one domain each                                                     *)
DomainCounts(ps) == {Min(1, Len(ps)), Len(ps)}

(* app.py:474, 512-513  every record is built with "date": None and none   *)
(* is given a date later, so `dates` is empty and most_recent is None      *)
MostRecent(ps) == DateAbsent

(* app.py:516-519  comp_prev (thousandths): 0.0 unless a company is given  *)
(* and there are records; then matches / num_sites, between no page        *)
(* holding the company's name and every page holding it                    *)
CompanyPrevalences(ps) ==
    IF company # << >> /\ ps # << >> THEN {0, 1000} ELSE {0}

(* app.py:498-522  the stats records the aggregation can produce *)
Aggregates(ps) ==
    {[num_websites |-> Len(ps), unique_domains |-> d, avg_rating |-> r,
      avg_sentiment |-> a, most_recent_date |-> MostRecent(ps), company_prevalence |-> c] :
        d \in DomainCounts(ps), r \in AvgRatings(ps), a \in AvgSentiments(ps),
        c \in CompanyPrevalences(ps)}

InitPipeline ==
    /\ stats = NoStats
    /\ ScoreIdle
    /\ TipsIdle
    /\ SearchIdle
    /\ API_KEY \in BOOLEAN
    /\ CSE_ID \in BOOLEAN
    /\ query_raw \in PipelineQueries
    /\ name = << >>
    /\ profession = << >>
    /\ city = << >>
    /\ PipelineIdle
    /\ CacheIdle
    /\ pc = "submit"

(* app.py:452-455 *)
ParseQuery ==
    /\ pc = "submit"
    /\ LET parts == parse_query(query_raw)
       IN  /\ name' = parts.name
           /\ profession' = parts.profession
           /\ city' = parts.city
    /\ pc' = "search"
    /\ UNCHANGED <<stats, scoreVars, tipVars, credVars, gtrVars, query_raw, pipeVars, cacheVars>>

(* app.py:468  credentials missing: cse_results = [] *)
SearchSkipped ==
    /\ pc = "search"
    /\ ~(API_KEY /\ CSE_ID)
    /\ cse_results' = << >>
    /\ pc' = "fetch"
    /\ UNCHANGED <<stats, scoreVars, tipVars, credVars, gtrVars, queryVars, cacheVars>>
    /\ UNCHANGED <<parsed, places, fallback_reviews>>

(* app.py:468  get_top_results(canonical_query, max_results=25) is called *)
SearchCall ==
    /\ pc = "search"
    /\ API_KEY /\ CSE_ID
    /\ max_results' = 25
    /\ pc' = "gtr_call"
    /\ UNCHANGED <<start, results, requests, responses, exc, returned>>
    /\ UNCHANGED nonGtrVars

(* app.py:468  the call returns: its locals are gone *)
SearchReturn ==
    /\ pc = "gtr_done"
    /\ cse_results' = returned
    /\ max_results' = 0
    /\ start' = 0
    /\ results' = << >>
    /\ requests' = << >>
    /\ responses' = << >>
    /\ exc' = "none"
    /\ returned' = << >>
    /\ pc' = "fetch"
    /\ UNCHANGED <<stats, scoreVars, tipVars, credVars, queryVars, cacheVars>>
    /\ UNCHANGED <<parsed, places, fallback_reviews>>

(* app.py:471-496  one iteration of the loop over cse_results *)
FetchItem ==
    /\ pc = "fetch"
    /\ Len(parsed) < Len(cse_results)
    /\ \E o \in OutcomesFor(Len(parsed) + 1) : parsed' = Append(parsed, o)
    /\ pc' = "fetch"
    /\ UNCHANGED <<stats, scoreVars, tipVars, credVars, gtrVars, queryVars, cacheVars>>
    /\ UNCHANGED <<cse_results, places, fallback_reviews>>

(* app.py:507  name.split()[0] with an empty name raises IndexError, as    *)
(* soon as there is one parsed record: the run ends                        *)
QuotesCrash ==
    /\ pc = "fetch"
    /\ Len(parsed) = Len(cse_results)
    /\ parsed # << >>
    /\ name = << >>
    /\ pc' = "crashed"
    /\ UNCHANGED <<stats, scoreVars, tipVars, credVars, gtrVars, queryVars, pipeVars, cacheVars>>

(* app.py:498-524  aggregation into stats, then the scorer *)
Aggregate ==
    /\ pc = "fetch"
    /\ Len(parsed) = Len(cse_results)
    /\ parsed = << >> \/ name # << >>
    /\ \E s \in Aggregates(parsed) : \E out \in calculate_presence_score(s) :
        /\ stats' = s
        /\ total' = out.total
        /\ raised' = out.raised
        /\ grade' = out.result
    /\ pc' = "places"
    /\ UNCHANGED <<tipVars, credVars, gtrVars, queryVars, pipeVars, cacheVars>>

(* app.py:527  places = get_google_places_details(...) if API_KEY else None *)
Places ==
    /\ pc = "places"
    /\ places' \in (IF API_KEY THEN PlacesResults ELSE {NoPlaces})
    /\ pc' = "fallback"
    /\ UNCHANGED <<stats, scoreVars, tipVars, credVars, gtrVars, queryVars, cacheVars>>
    /\ UNCHANGED <<cse_results, parsed, fallback_reviews>>

(* app.py:530  gather_fallback_reviews: every site parser searches through *)
(* get_top_results, which yields nothing without both credentials          *)
Fallback ==
    /\ pc = "fallback"
    /\ fallback_reviews' \in (IF API_KEY /\ CSE_ID THEN FallbackResults ELSE {<< >>})
    /\ pc' = "done"
    /\ UNCHANGED <<stats, scoreVars, tipVars, credVars, gtrVars, queryVars, cacheVars>>
    /\ UNCHANGED <<cse_results, parsed, places>>

NextPipeline ==
    \/ ParseQuery
    \/ SearchSkipped
    \/ SearchCall
    \/ GTR_Enter
    \/ GTR_Page
    \/ GTR_PageFails
    \/ GTR_Exhausted
    \/ GTR_Return
    \/ SearchReturn
    \/ FetchItem
    \/ QuotesCrash
    \/ Aggregate
    \/ Places
    \/ Fallback

SpecPipeline == InitPipeline /\ [][NextPipeline]_vars

-----------------------------------------------------------------------------
(* The adapters behind @st.cache_data(ttl=3600) (app.py:139, 169, 197),    *)
(* over a sequence of analysis requests that all fall within the expiry    *)
(* window.  Streamlit reruns the script for every request, so API_KEY and  *)
(* CSE_ID are read again each time; the cache lives on between the runs    *)
(* and is keyed by the function and its arguments only.                    *)

MaxRequests == 3

(* the backend's answer to the k-th request of one get_top_results call;   *)
(* a backend that is down fails every request                              *)
BackendAnswer(resp, k) ==
    IF k <= Len(resp) THEN resp[k] ELSE [kind |-> "error", n |-> 0]

(* app.py:147-163  the loop of get_top_results run to its end *)
RECURSIVE GTR_Loop(_, _, _, _, _)
GTR_Loop(maxr, st, rs, resp, k) ==
    IF st > maxr THEN rs
    ELSE LET r == BackendAnswer(resp, k)
             rs2 == rs \o PageItems(st, r.n)
         IN  IF r.kind # "items" THEN rs2
             ELSE IF Len(rs2) >= maxr THEN rs2
             ELSE GTR_Loop(maxr, st + PageStep, rs2, resp, k + 1)

(* app.py:140-164  one uncached call *)
get_top_results(key, cse, maxr, resp) ==
    IF ~(key /\ cse) THEN << >>
    ELSE Truncate(GTR_Loop(maxr, 1, << >>, resp, 1), maxr)

(* app.py:170-192  one uncached call: None without API_KEY, on an          *)
(* exception and when there is no candidate                                *)
get_google_places_details(key, w) ==
    IF ~key \/ w.places = "down" THEN NoPlaces
    ELSE [found |-> TRUE, reviews |-> <<[site |-> "Google", rating |-> Some(100)]>>]

(* app.py:198-272  one uncached call: a search for Yelp pages with         *)
(* max_results=8, then at most max_reviews=5 reviews from the pages found  *)
parse_yelp(key, cse, w) ==
    LET items == get_top_results(key, cse, 8, w.search)
    IN  [i \in 1..Min(5, Len(items)) |-> [site |-> "Yelp", rating |-> Some(400)]]

(* st.cache_data: the stored value for these arguments if there is one,    *)
(* else the value just computed                                            *)
CacheHit(entries, args) == \E e \in entries : e[1] = args
CacheGet(entries, args, computed) ==
    IF CacheHit(entries, args)
    THEN (CHOOSE e \in entries : e[1] = args)[2]
    ELSE computed
CachePut(entries, args, computed) ==
    IF CacheHit(entries, args) THEN entries ELSE entries \cup {<<args, computed>>}

(* app.py:459 *)
CanonicalQuery(parts) == parts.name \o parts.profession \o parts.city

CacheQueries == {<<"Jane">>, <<"Jane", ",", "Chicago">>}
Worlds ==
    [search : {<< >>,
               <<[kind |-> "items", n |-> 1], [kind |-> "items", n |-> 0],
                 [kind |-> "items", n |-> 0]>>,
               <<[kind |-> "items", n |-> PageStep], [kind |-> "items", n |-> PageStep],
                 [kind |-> "items", n |-> PageStep]>>},
     places : {"down", "up"}]

InitCache ==
    /\ stats = NoStats
    /\ ScoreIdle
    /\ TipsIdle
    /\ SearchIdle
    /\ NoCredentials
    /\ QueryIdle
    /\ PipelineIdle
    /\ CacheIdle
    /\ pc = "await"

(* app.py:468, 527, 530  the adapter calls of one analysis request *)
Analyse ==
    /\ pc = "await"
    /\ request_no < MaxRequests
    /\ \E q \in CacheQueries, key \in BOOLEAN, cse \in BOOLEAN, w \in Worlds :
        LET parts == parse_query(q)
            cq == CanonicalQuery(parts)
            top == get_top_results(key, cse, 25, w.search)
            det == get_google_places_details(key, w)
            yelp == parse_yelp(key, cse, w)
            callTop == key /\ cse
            callDet == key
        IN  /\ query_raw' = q
            /\ name' = parts.name
            /\ profession' = parts.profession
            /\ city' = parts.city
            /\ API_KEY' = key
            /\ CSE_ID' = cse
            /\ world' = w
            /\ served' =
                  [get_top_results |->
                       IF callTop THEN CacheGet(cache.get_top_results, <<cq, 25>>, top)
                       ELSE << >>,
                   get_google_places_details |->
                       IF callDet THEN CacheGet(cache.get_google_places_details, <<cq>>, det)
                       ELSE NoPlaces,
                   parse_yelp |-> CacheGet(cache.parse_yelp, <<cq, parts.city>>, yelp)]
            /\ direct' =
                  [get_top_results |-> IF callTop THEN top ELSE << >>,
                   get_google_places_details |-> IF callDet THEN det ELSE NoPlaces,
                   parse_yelp |-> yelp]
            /\ cache' =
                  [get_top_results |->
                       IF callTop THEN CachePut(cache.get_top_results, <<cq, 25>>, top)
                       ELSE cache.get_top_results,
                   get_google_places_details |->
                       IF callDet THEN CachePut(cache.get_google_places_details, <<cq>>, det)
                       ELSE cache.get_google_places_details,
                   parse_yelp |-> CachePut(cache.parse_yelp, <<cq, parts.city>>, yelp)]
    /\ request_no' = request_no + 1
    /\ pc' = "await"
    /\ UNCHANGED <<stats, scoreVars, tipVars, gtrVars, pipeVars>>

NextCache == Analyse

SpecCache == InitCache /\ [][NextCache]_vars

-----------------------------------------------------------------------------
(* Claims about calculate_presence_score, checked under SpecScore.         *)

(* The sub-scores and the composite as section 4.3 of the specification    *)
(* states them, in hundredths and ten-thousandths.                         *)
SpecRecency(s) ==
    IF s.most_recent_date.kind = "absent" THEN 0
    ELSE IF s.most_recent_date.kind = "unparseable" THEN 20
    ELSE LET d == s.most_recent_date.days
         IN  CASE d <= 7 -> 100
               [] d > 7 /\ d <= 30 -> 80
               [] d > 30 /\ d <= 90 -> 50
               [] d > 90 /\ d <= 365 -> 30
               [] d > 365 -> 10

SpecComposite(s) ==
    LET sites == IF s.num_websites >= 50 THEN 10000 ELSE 200 * s.num_websites
        rating == IF s.avg_rating.some THEN 20 * s.avg_rating.v ELSE 0
        sent == 5000 + 5 * s.avg_sentiment
        rec == 100 * SpecRecency(s)
        comp == 10 * s.company_prevalence
        sum == 35 * sites + 30 * rating + 15 * sent + 10 * rec + 10 * comp
    IN  IF sum < 0 THEN 0 ELSE IF sum > 1000000 THEN 1000000 ELSE sum

(* C1: for every stats record the returned score is the clamped weighted   *)
(* sum 0.35*sites + 0.30*rating + 0.15*sentiment + 0.10*recency +          *)
(* 0.10*company (to the two decimals the score is returned with), and it   *)
(* lies in [0,100].                                                        *)
C1_ScoreIsWeightedSum ==
    pc = "scored" =>
        /\ grade.score >= 0 /\ grade.score <= 10000
        /\ 100 * grade.score - SpecComposite(stats) <= 50
        /\ SpecComposite(stats) - 100 * grade.score <= 50

(* C2: a present but unparseable most_recent_date gives recency_score 20   *)
(* with the other sub-scores and the composite still computed from the     *)
(* remaining data; an absent most_recent_date gives recency_score 0.       *)
C2_UnparseableDateDegradesTo20 ==
    pc = "scored" =>
        /\ stats.most_recent_date.kind = "absent" => grade.breakdown.Recency = 0
        /\ stats.most_recent_date.kind = "unparseable" =>
              /\ grade.breakdown.Recency = 20
              /\ grade.breakdown.Sites \in RoundSet(IF stats.num_websites >= 50 THEN 10000
                                                    ELSE 200 * stats.num_websites, 10)
              /\ grade.breakdown.Rating \in
                    RoundSet(IF stats.avg_rating.some THEN 20 * stats.avg_rating.v ELSE 0, 10)
              /\ grade.breakdown.Sentiment \in RoundSet(5000 + 5 * stats.avg_sentiment, 10)
              /\ grade.score \in RoundSet(SpecComposite(stats), 100)

(* C7: the grade follows from the composite score by closed-above          *)
(* thresholds: >= 90 A, >= 80 B, >= 70 C, >= 60 D, below 60 F; exactly one *)
(* grade for every score in [0,100].                                       *)
C7_GradeThresholds ==
    pc = "scored" =>
        /\ total >= 0 /\ total <= 1000000
        /\ grade.grade \in {"A", "B", "C", "D", "F"}
        /\ (grade.grade = "A") <=> (total >= 900000)
        /\ (grade.grade = "B") <=> (total >= 800000 /\ total < 900000)
        /\ (grade.grade = "C") <=> (total >= 700000 /\ total < 800000)
        /\ (grade.grade = "D") <=> (total >= 600000 /\ total < 700000)
        /\ (grade.grade = "F") <=> (total < 600000)

(* a composite of exactly 90.0 was graded A *)
C7_Witness ==
    pc = "scored" /\ ~raised /\ total = 900000 /\ grade.grade = "A"

(* C8: for a most_recent_date that parses, recency_score is the step       *)
(* function of its age in whole days: <= 7 gives 100, <= 30 gives 80,      *)
(* <= 90 gives 50, <= 365 gives 30, older gives 10.                        *)
C8_RecencySteps ==
    (pc = "scored" /\ stats.most_recent_date.kind = "date") =>
        LET d == stats.most_recent_date.days
            r == grade.breakdown.Recency
        IN  /\ ~raised
            /\ d <= 7 => r = 100
            /\ (7 < d /\ d <= 30) => r = 80
            /\ (30 < d /\ d <= 90) => r = 50
            /\ (90 < d /\ d <= 365) => r = 30
            /\ d > 365 => r = 10

(* a date exactly 7 days old was scored 100 *)
C8_Witness ==
    /\ pc = "scored"
    /\ stats.most_recent_date = DateAged(7)
    /\ grade.breakdown.Recency = 100

-----------------------------------------------------------------------------
(* Claims about generate_tips, checked under SpecTips.                     *)

ReputationTips(ts) == {i \in 1..Len(ts) : ts[i][1] = "Reputation"}

(* C5: exactly one Reputation tip is emitted, chosen by avg_rating: the    *)
(* positive tip when present and >= 4.5, the mixed tip when present and in *)
(* [3.0, 4.5), the low-rating tip when present and < 3.0 (0.0 included),   *)
(* the no-rating tip only when avg_rating is absent.                       *)
C5_ReputationTipByRating ==
    pc = "tipped" =>
        LET r == stats.avg_rating
        IN  /\ Cardinality(ReputationTips(filtered)) = 1
            /\ \A i \in ReputationTips(filtered) :
                  /\ (r.some /\ r.v >= 450) => filtered[i] = TipStrong
                  /\ (r.some /\ r.v >= 300 /\ r.v < 450) => filtered[i] = TipMixed
                  /\ (r.some /\ r.v < 300) => filtered[i] = TipLow
                  /\ (filtered[i] = TipNoRating) => ~r.some

(* positions of `tips` holding the first occurrence of their message *)
FirstOccurrences(ts) ==
    {i \in 1..Len(ts) : \A j \in 1..(i - 1) : ts[j][2] # ts[i][2]}

(* C6: the returned list holds no two tips with the same message text,     *)
(* keeps the tips in the order their rules appended them, and of a         *)
(* repeated message keeps the first occurrence with its category.          *)
C6_DedupedInRuleOrder ==
    pc = "tipped" =>
        /\ \A i, j \in 1..Len(filtered) : i # j => filtered[i][2] # filtered[j][2]
        /\ Len(filtered) = Cardinality(FirstOccurrences(tips))
        /\ \A i \in FirstOccurrences(tips) :
              filtered[Cardinality({j \in FirstOccurrences(tips) : j <= i})] = tips[i]

(* seven rules fired and their tips came back in rule order *)
C6_Witness ==
    /\ pc = "tipped"
    /\ filtered = <<TipCity, TipNoRating, TipFewReviews, TipNegative, TipFootprint,
                    TipStale, TipCompany("Acme")>>

-----------------------------------------------------------------------------
(* Claims about get_top_results, checked under SpecSearch.                 *)

(* the items of the first k answered requests, in order *)
RECURSIVE ItemsOfPages(_)
ItemsOfPages(k) ==
    IF k = 0 THEN << >>
    ELSE ItemsOfPages(k - 1) \o [i \in 1..responses[k].n |-> <<requests[k], i>>]

(* C10: get_top_results never raises and returns at most max_results       *)
(* items whatever the backend does; without API_KEY or CSE_ID it returns   *)
(* the empty list and issues no request; when a page request fails it      *)
(* returns the items accumulated from the earlier pages.                   *)
C10_SearchFailsOpen ==
    /\ exc # "escaped"
    /\ pc = "gtr_done" =>
          /\ Len(returned) <= max_results
          /\ ~(API_KEY /\ CSE_ID) => (returned = << >> /\ requests = << >>)
          /\ (responses # << >> /\ responses[Len(responses)].kind = "error") =>
                returned = ItemsOfPages(Len(responses) - 1)
          /\ \A i \in 1..Len(returned) : returned[i] = ItemsOfPages(Len(responses))[i]

(* the second page request failed and the ten items of the first came back *)
C10_Witness ==
    /\ pc = "gtr_done"
    /\ max_results = 25
    /\ Len(responses) = 2
    /\ responses[2].kind = "error"
    /\ exc = "caught"
    /\ returned = [i \in 1..10 |-> <<1, i>>]

-----------------------------------------------------------------------------
(* Claims about the main analysis pipeline, checked under SpecPipeline.    *)

(* C3: for every submitted query (one whose parsed name is empty included) *)
(* and every outcome of the external calls, the pipeline gets to the step  *)
(* that produces stats and the score: no exception escapes on the way.     *)
C3_PipelineNeverCrashes == pc # "crashed"

(* sum and count of the ratings of the first i records of a list *)
RECURSIVE RatedSum(_, _)
RatedSum(rs, i) ==
    IF i = 0 THEN 0
    ELSE RatedSum(rs, i - 1) + (IF rs[i].rating.some THEN rs[i].rating.v ELSE 0)

RatedCount(rs) == Cardinality({i \in 1..Len(rs) : rs[i].rating.some})

(* a is sum / n rounded to the nearest whole (hundredth of a star) *)
IsRoundedMean(a, sum, n) == 2 * (a * n - sum) <= n /\ 2 * (sum - a * n) <= n

-----------------------------------------------------------------------------
(* Claims about the memoizing cache, checked under SpecCache.              *)

(* C9: the cache is transparent: on every request of a sequence within     *)
(* the expiry window the adapters return through the cache what they       *)
(* return without it, also when a backend fails on one request and         *)
(* answers on a later one, or when the credentials change in between.      *)
C9_CacheTransparent == served = direct

(* the step-by-step and the run-to-the-end renderings of get_top_results   *)
(* agree                                                                   *)
GTR_RenderingsAgree ==
    pc = "gtr_done" => returned = get_top_results(API_KEY, CSE_ID, max_results, responses)

-----------------------------------------------------------------------------
(* Claims about parse_query, checked under SpecParse.                      *)

(* A token whose first character is an upper-case letter *)
Capitalized(t) == t \in {"Dr.", "Dr.Jane", "Jane", "Chicago"}

HasComma(q) == \E i \in 1..Len(q) : q[i] = ","

EndsCapitalized(q) == q # << >> /\ Capitalized(q[Len(q)])

(* C11: for a query without commas whose last token is capitalized,        *)
(* parse_query returns that last token as city; and city is non-empty      *)
(* whenever the query has at least two non-empty comma-separated parts     *)
(* (city = the last part) or ends in a capitalized token.                  *)
C11_CityFromCapitalizedLastToken ==
    pc = "parse_done" =>
        LET parts == SplitByComma(query_raw, << >>, << >>)
        IN  /\ (~HasComma(query_raw) /\ EndsCapitalized(query_raw))
                    => city = <<query_raw[Len(query_raw)]>>
            /\ Len(parts) >= 2 => city = parts[Len(parts)]
            /\ (Len(parts) >= 2 \/ EndsCapitalized(query_raw)) => city # << >>

-----------------------------------------------------------------------------
(* Claims about generate_tips and a date that is absent or does not parse, *)
(* checked under SpecTips.                                                 *)

(* ages of a recent date: none of them draws a Recency tip *)
RecentAges == {0, 7, 90}

(* the tips of a list that are not of the Recency category *)
WithoutRecency(ts) ==
    LET F[i \in 0..Len(ts)] ==
            IF i = 0 THEN << >>
            ELSE IF ts[i][1] = "Recency" THEN F[i - 1] ELSE Append(F[i - 1], ts[i])
    IN  F[Len(ts)]

(* C12: generate_tips returns a tip list without raising for every stats   *)
(* record and input combination; when most_recent_date is absent or cannot *)
(* be parsed, no Recency tip is emitted and the tips of all other rules    *)
(* are the same as they would be with a recent parseable date.             *)
C12_TipsNeverRaiseAndSkipRecency ==
    /\ pc # "tips_raised"
    /\ (pc = "tipped" /\ stats.most_recent_date.kind \in {"absent", "unparseable"}) =>
           /\ \A i \in 1..Len(filtered) : filtered[i][1] # "Recency"
           /\ \A d \in RecentAges :
                  WithoutRecency(filtered) =
                      WithoutRecency(generate_tips(
                          [stats EXCEPT !.most_recent_date = DateAged(d)],
                          stats.avg_rating, review_count, sentiment_scores, inputs))

(* a date that does not parse, with the rules before and after the Recency *)
(* rule (Presence, Company) both firing                                    *)
C12_Witness ==
    /\ pc = "tipped"
    /\ stats.most_recent_date = DateUnparseable
    /\ \E i \in 1..Len(filtered) : \E j \in 1..Len(filtered) :
           /\ j = i + 1
           /\ filtered[i] = TipFootprint
           /\ filtered[j] = TipCompany("Acme")

-----------------------------------------------------------------------------
(* Claims about the page requests of one get_top_results call, checked     *)
(* under SpecSearchLive.                                                   *)

(* the requests issued so far: starts 1, 11, 21, ... in this order, each   *)
(* once; at most ceil(max_results/10) of them; every request but the last  *)
(* answered well (none follows a failed one); fewer than max_results items *)
(* collected before each of them                                           *)
RequestDiscipline ==
    /\ \A k \in 1..Len(requests) : requests[k] = 1 + 10 * (k - 1)
    /\ Len(requests) <= (max_results + 9) \div 10
    /\ \A k \in 1..(Len(requests) - 1) : responses[k].kind = "items"
    /\ \A k \in 1..Len(requests) : Len(ItemsOfPages(k - 1)) < max_results

(* C13: within one get_top_results call the pages are requested in         *)
(* increasing order of start = 1, 11, 21, ..., each at most once, at most  *)
(* ceil(max_results/10) requests are issued, no page is requested once     *)
(* max_results items are collected, no request follows a failed request,   *)
(* and the loop always terminates (the call returns).                      *)
C13_PagesOnceInOrderNoRetry == []RequestDiscipline /\ <>(pc = "gtr_done")

(* three pages requested for max_results = 25, the third one failing *)
C13_Witness ==
    /\ pc = "gtr_done"
    /\ max_results = 25
    /\ requests = <<1, 11, 21>>
    /\ responses[3].kind = "error"
    /\ exc = "caught"
    /\ Len(returned) = 19

-----------------------------------------------------------------------------
(* Claims about the scores the pipeline can produce, checked under         *)
(* SpecPipeline.                                                           *)

(* C14: in every run of the main pipeline, whatever the external sources   *)
(* return, the stats passed to the scorer have num_websites <= 25,         *)
(* most_recent_date absent and company_prevalence = 0, so the composite    *)
(* score is at most 62.5 and the grade is D or F (A, B and C are           *)
(* unreachable end to end).                                                *)
C14_PipelineScoreCapped ==
    pc \in {"places", "fallback", "done"} =>
        /\ stats.num_websites <= 25
        /\ stats.most_recent_date = DateAbsent
        /\ stats.company_prevalence = 0
        /\ ~raised
        /\ total <= 625000
        /\ grade.score <= 6250
        /\ grade.grade \in {"D", "F"}

(* the best run there is: 25 results, each rated 5.0 with sentiment +1.0,  *)
(* scoring 62.5 and graded D                                               *)
C14_Witness ==
    /\ pc = "done"
    /\ stats.num_websites = 25
    /\ stats.avg_rating = Some(500)
    /\ stats.avg_sentiment = 1000
    /\ grade.score = 6250
    /\ grade.grade = "D"

-----------------------------------------------------------------------------
(* Claims about the grade and the rounded score returned together, checked *)
(* under SpecScore.                                                        *)

(* the grade the thresholds give to a returned score (hundredths) *)
GradeOfScore(sc) ==
    IF sc >= 9000 THEN "A"
    ELSE IF sc >= 8000 THEN "B"
    ELSE IF sc >= 7000 THEN "C"
    ELSE IF sc >= 6000 THEN "D"
    ELSE "F"

(* C15: the grade and the score returned together by                       *)
(* calculate_presence_score are consistent with the grade thresholds: the  *)
(* returned (2-decimal rounded) score is >= 90 exactly when the grade is   *)
(* A, in [80,90) exactly when B, in [70,80) exactly when C, in [60,70)     *)
(* exactly when D and < 60 exactly when F, for every stats record with     *)
(* avg_rating in 0.01 steps and avg_sentiment in 0.001 steps.              *)
C15_GradeMatchesRoundedScore ==
    pc = "scored" => grade.grade = GradeOfScore(grade.score)

=============================================================================
